---- MODULE Spec2Model ----
(***************************************************************************)
(* User management service: the User aggregate, the PostgreSQL repository  *)
(* adapter and the create / get / update / delete use cases, modelled as   *)
(* concurrent request-scoped invocations against one shared users table.   *)
(*                                                                         *)
(* One process is one use-case invocation.  Every repository call is one   *)
(* atomic SQL statement; the local computation that follows a call (the    *)
(* aggregate's constructor and mutators, which touch no shared state       *)
(* besides reading the clock) belongs to the step of that call.            *)
(***************************************************************************)
EXTENDS Integers, Sequences, FiniteSets, TLC

\* ---------------------------------------------------------------- bounds
NumProcs == 2          \* concurrent use-case invocations
MaxClock == 1          \* instants after the first at which the clock is read
MaxFaults == 1         \* repository calls that fail for an infrastructure fault

Procs == 1..NumProcs

\* ---------------------------------------------------------------- strings
\* A string is a sequence of one-character strings.
Upper == {"A", "B", "C", "D", "N", "M"}
Lower == {"a", "b", "c", "d", "n", "m"}

LowerChar(c) ==
  CASE c = "A" -> "a" [] c = "B" -> "b" [] c = "C" -> "c"
    [] c = "D" -> "d" [] c = "N" -> "n" [] c = "M" -> "m"
    [] OTHER -> c

ToLower(s) == [i \in 1..Len(s) |-> LowerChar(s[i])]

RECURSIVE TrimLeft(_)
TrimLeft(s) == IF s # <<>> /\ Head(s) = " " THEN TrimLeft(Tail(s)) ELSE s

RECURSIVE TrimRight(_)
TrimRight(s) ==
  IF s # <<>> /\ s[Len(s)] = " " THEN TrimRight(SubSeq(s, 1, Len(s) - 1)) ELSE s

TrimSpace(s) == TrimRight(TrimLeft(s))

IsAtom(s) == s # <<>> /\ \A i \in 1..Len(s) : s[i] \in Upper \cup Lower

\* addr-spec: local-part "@" domain.
IsAddrSpec(s) ==
  \E k \in 1..Len(s) :
    /\ s[k] = "@"
    /\ IsAtom(SubSeq(s, 1, k - 1))
    /\ IsAtom(SubSeq(s, k + 1, Len(s)))

IsPhrase(s) == \A i \in 1..Len(s) : s[i] \in Upper \cup Lower \cup {" "}

\* name-addr: [display-name] "<" addr-spec ">".
IsNameAddr(s) ==
  /\ s # <<>>
  /\ s[Len(s)] = ">"
  /\ \E k \in 1..Len(s) :
       /\ s[k] = "<"
       /\ IsPhrase(SubSeq(s, 1, k - 1))
       /\ IsAddrSpec(SubSeq(s, k + 1, Len(s) - 1))

\* mail.ParseAddress succeeds on an RFC 5322 address: surrounding white
\* space is skipped, then either a bare addr-spec or a name-addr.
ParseAddressOK(s) == IsAddrSpec(TrimSpace(s)) \/ IsNameAddr(TrimSpace(s))

\* ---------------------------------------------------------------- errors
\* An error is the chain errors.Is walks (outermost first) plus the text of
\* a cause that was formatted with %v and is therefore not in the chain.
Nil == [chain |-> <<>>, cause |-> ""]

ErrEmptyName          == [chain |-> <<"ErrEmptyName">>, cause |-> ""]
ErrInvalidEmail       == [chain |-> <<"ErrInvalidEmail">>, cause |-> ""]
ErrUserNotFound       == [chain |-> <<"ErrUserNotFound">>, cause |-> ""]
ErrEmailExists        == [chain |-> <<"ErrEmailExists">>, cause |-> ""]

\* fmt.Errorf("%w: %v", user.ErrRepositoryInternal, err)
ErrRepositoryInternal(cause) ==
  [chain |-> <<"ErrRepositoryInternal">>, cause |-> cause]

\* fmt.Errorf(msg + ": %w", err)
Wrap(msg, err) == [err EXCEPT !.chain = <<msg>> \o @]

\* errors.Is(err, target) for a sentinel target
Is(err, target) == \E i \in 1..Len(err.chain) : err.chain[i] = target.chain[1]

\* ---------------------------------------------------------------- aggregate
NoUser == [id |-> 0, name |-> <<>>, email |-> <<>>, createdAt |-> -1, updatedAt |-> -1]

validateEmail(email) ==
  IF TrimSpace(email) = <<>> THEN ErrInvalidEmail
  ELSE IF ~ParseAddressOK(email) THEN ErrInvalidEmail
  ELSE Nil

\* New with the two checks in the other order.
New_EmailFirst(name, email, now, uuid) ==
  IF validateEmail(email) # Nil THEN [user |-> NoUser, err |-> validateEmail(email)]
  ELSE IF TrimSpace(name) = <<>> THEN [user |-> NoUser, err |-> ErrEmptyName]
  ELSE [user |-> [id |-> uuid,
                  name |-> TrimSpace(name),
                  email |-> ToLower(TrimSpace(email)),
                  createdAt |-> now,
                  updatedAt |-> now],
        err |-> Nil]

New(name, email, now, uuid) ==
  IF TrimSpace(name) = <<>> THEN [user |-> NoUser, err |-> ErrEmptyName]
  ELSE IF validateEmail(email) # Nil THEN [user |-> NoUser, err |-> validateEmail(email)]
  ELSE [user |-> [id |-> uuid,
                  name |-> TrimSpace(name),
                  email |-> ToLower(TrimSpace(email)),
                  createdAt |-> now,
                  updatedAt |-> now],
        err |-> Nil]

Reconstruct(id, name, email, createdAt, updatedAt) ==
  [id |-> id, name |-> name, email |-> email,
   createdAt |-> createdAt, updatedAt |-> updatedAt]

UpdateName(u, name, now) ==
  IF TrimSpace(name) = <<>> THEN [user |-> u, err |-> ErrEmptyName]
  ELSE [user |-> [u EXCEPT !.name = TrimSpace(name), !.updatedAt = now], err |-> Nil]

UpdateEmail(u, email, now) ==
  IF validateEmail(email) # Nil THEN [user |-> u, err |-> validateEmail(email)]
  ELSE [user |-> [u EXCEPT !.email = ToLower(TrimSpace(email)), !.updatedAt = now],
        err |-> Nil]

MapFromDomain(u) ==
  [id |-> u.id, name |-> u.name, email |-> u.email,
   createdAt |-> u.createdAt, updatedAt |-> u.updatedAt]

\* ---------------------------------------------------------------- inputs
Some(x) == <<x>>
None == <<>>

AtB == <<"a", "@", "b">>
CtD == <<"c", "@", "d">>

\* Names and emails a request may carry.
Names == { <<>>, <<" ", "m">> }
Emails == { <<>>, <<"A", "@", "b">>, CtD }

\* Outcome of the round trip to the database: "ok", or the text of the
\* driver error (a cancelled / expired context or any other fault).
Faults == {"context canceled"}

\* Rows the users table may hold when the service starts.
U1 == [id |-> 1, name |-> <<"n">>, email |-> AtB, createdAt |-> 0, updatedAt |-> 0]
InitStores == { {U1} }
FirstFreshId == 2

\* ---------------------------------------------------------------- database
\* time.Time counts nanoseconds; a timestamp column keeps microseconds.
Microsecond == 1000

\* What a timestamp column holds of the time.Time t written to it: the
\* driver encodes t as whole microseconds, dropping the rest.
DBTime(t) == t - (t % Microsecond)

\* The users table has a unique index on email: a statement that would
\* leave a second row with the same email is rejected as a whole with
\* unique_violation (SQLSTATE 23505).  Row id itself is not a second row.
\* A table without the unique index.
UniqueViolation_Off(st, id, email) == FALSE

UniqueViolation(st, id, email) ==
  \E r \in st : r.id # id /\ r.email = email

\* ---------------------------------------------------------------- repository
Save(st, u, f) ==
  IF f # "ok" THEN [store |-> st, err |-> ErrRepositoryInternal(f)]
  ELSE IF (\E r \in st : r.id = u.id) \/ UniqueViolation(st, u.id, u.email)
       THEN [store |-> st, err |-> ErrEmailExists]
  ELSE [store |-> st \cup {[id |-> u.id, name |-> u.name, email |-> u.email,
                            createdAt |-> DBTime(u.createdAt),
                            updatedAt |-> DBTime(u.updatedAt)]},
        err |-> Nil]

FindByID(st, id, f) ==
  IF f # "ok" THEN [user |-> NoUser, err |-> ErrRepositoryInternal(f)]
  ELSE IF ~\E r \in st : r.id = id THEN [user |-> NoUser, err |-> ErrUserNotFound]
  ELSE LET r == CHOOSE r \in st : r.id = id
       IN [user |-> Reconstruct(r.id, r.name, r.email, r.createdAt, r.updatedAt),
           err |-> Nil]

\* FindByEmail with a comparison that ignores letter case.
FindByEmail_IgnoreCase(st, email, f) ==
  IF f # "ok" THEN [user |-> NoUser, err |-> ErrRepositoryInternal(f)]
  ELSE IF ~\E r \in st : ToLower(r.email) = ToLower(email)
    THEN [user |-> NoUser, err |-> ErrUserNotFound]
  ELSE LET r == CHOOSE r \in st : ToLower(r.email) = ToLower(email)
       IN [user |-> Reconstruct(r.id, r.name, r.email, r.createdAt, r.updatedAt),
           err |-> Nil]

FindByEmail(st, email, f) ==
  IF f # "ok" THEN [user |-> NoUser, err |-> ErrRepositoryInternal(f)]
  ELSE IF ~\E r \in st : r.email = email THEN [user |-> NoUser, err |-> ErrUserNotFound]
  ELSE LET r == CHOOSE r \in st : r.email = email
       IN [user |-> Reconstruct(r.id, r.name, r.email, r.createdAt, r.updatedAt),
           err |-> Nil]

\* The orders in which ORDER BY created_at DESC can return the rows of st:
\* newest first, rows of equal created_at in any order.
Orderings(st) ==
  { s \in [1..Cardinality(st) -> st] :
      /\ \A i \in DOMAIN s, j \in DOMAIN s : i < j =>
           s[i] # s[j] /\ s[i].createdAt >= s[j].createdAt }

Min(a, b) == IF a <= b THEN a ELSE b

\* FindAll with a statement that has no OFFSET clause.
FindAll_NoOffset(st, limit, offset, f, ord) ==
  IF f # "ok" THEN [users |-> <<>>, err |-> ErrRepositoryInternal(f)]
  ELSE LET page == SubSeq(ord, 1, Min(limit, Len(ord)))
       IN [users |-> [i \in DOMAIN page |->
                        Reconstruct(page[i].id, page[i].name, page[i].email,
                                    page[i].createdAt, page[i].updatedAt)],
           err |-> Nil]

\* ord is the order in which the database returns the rows.
FindAll(st, limit, offset, f, ord) ==
  IF f # "ok" THEN [users |-> <<>>, err |-> ErrRepositoryInternal(f)]
  ELSE LET page == SubSeq(ord, offset + 1, Min(offset + limit, Len(ord)))
       IN [users |-> [i \in DOMAIN page |->
                        Reconstruct(page[i].id, page[i].name, page[i].email,
                                    page[i].createdAt, page[i].updatedAt)],
           err |-> Nil]

\* Update with the name and email arguments of the statement swapped.
Update_Swapped(st, u, f) ==
  IF f # "ok" THEN [store |-> st, err |-> ErrRepositoryInternal(f)]
  ELSE IF ~\E r \in st : r.id = u.id THEN [store |-> st, err |-> ErrUserNotFound]
  ELSE IF UniqueViolation(st, u.id, u.name)
       THEN [store |-> st, err |-> ErrEmailExists]
  ELSE [store |-> { IF r.id = u.id
                    THEN [r EXCEPT !.name = u.email, !.email = u.name,
                                   !.updatedAt = DBTime(u.updatedAt)]
                    ELSE r : r \in st },
        err |-> Nil]

\* Update without the RowsAffected check.
Update_NoRowsCheck(st, u, f) ==
  IF f # "ok" THEN [store |-> st, err |-> ErrRepositoryInternal(f)]
  ELSE IF UniqueViolation(st, u.id, u.email) /\ \E r \in st : r.id = u.id
       THEN [store |-> st, err |-> ErrEmailExists]
  ELSE [store |-> { IF r.id = u.id
                    THEN [r EXCEPT !.name = u.name, !.email = u.email,
                                   !.updatedAt = DBTime(u.updatedAt)]
                    ELSE r : r \in st },
        err |-> Nil]

\* Update as two statements, the name first: when the email collides the
\* name has already been written.
Update_NameThenEmail(st, u, f) ==
  IF f # "ok" THEN [store |-> st, err |-> ErrRepositoryInternal(f)]
  ELSE IF ~\E r \in st : r.id = u.id THEN [store |-> st, err |-> ErrUserNotFound]
  ELSE IF UniqueViolation(st, u.id, u.email)
       THEN [store |-> { IF r.id = u.id THEN [r EXCEPT !.name = u.name] ELSE r : r \in st },
             err |-> ErrEmailExists]
  ELSE [store |-> { IF r.id = u.id
                    THEN [r EXCEPT !.name = u.name, !.email = u.email,
                                   !.updatedAt = DBTime(u.updatedAt)]
                    ELSE r : r \in st },
        err |-> Nil]

\* Update with a statement that also sets created_at.
Update_TouchCreated(st, u, f) ==
  IF f # "ok" THEN [store |-> st, err |-> ErrRepositoryInternal(f)]
  ELSE IF ~\E r \in st : r.id = u.id THEN [store |-> st, err |-> ErrUserNotFound]
  ELSE IF UniqueViolation(st, u.id, u.email)
       THEN [store |-> st, err |-> ErrEmailExists]
  ELSE [store |-> { IF r.id = u.id
                    THEN [r EXCEPT !.name = u.name, !.email = u.email,
                                   !.createdAt = DBTime(u.updatedAt),
                                   !.updatedAt = DBTime(u.updatedAt)]
                    ELSE r : r \in st },
        err |-> Nil]

Update(st, u, f) ==
  IF f # "ok" THEN [store |-> st, err |-> ErrRepositoryInternal(f)]
  ELSE IF ~\E r \in st : r.id = u.id THEN [store |-> st, err |-> ErrUserNotFound]
  ELSE IF UniqueViolation(st, u.id, u.email)
       THEN [store |-> st, err |-> ErrEmailExists]
  ELSE [store |-> { IF r.id = u.id
                    THEN [r EXCEPT !.name = u.name, !.email = u.email,
                                   !.updatedAt = DBTime(u.updatedAt)]
                    ELSE r : r \in st },
        err |-> Nil]

\* Delete that marks the row instead of removing it.
Delete_Soft(st, id, f) ==
  IF f # "ok" THEN [store |-> st, err |-> ErrRepositoryInternal(f)]
  ELSE IF ~\E r \in st : r.id = id THEN [store |-> st, err |-> ErrUserNotFound]
  ELSE [store |-> st, err |-> Nil]

\* Delete without the RowsAffected check.
Delete_NoRowsCheck(st, id, f) ==
  IF f # "ok" THEN [store |-> st, err |-> ErrRepositoryInternal(f)]
  ELSE [store |-> { r \in st : r.id # id }, err |-> Nil]

Delete(st, id, f) ==
  IF f # "ok" THEN [store |-> st, err |-> ErrRepositoryInternal(f)]
  ELSE IF ~\E r \in st : r.id = id THEN [store |-> st, err |-> ErrUserNotFound]
  ELSE [store |-> { r \in st : r.id # id }, err |-> Nil]

\* ---------------------------------------------------------------- use cases
\* What an invocation holds after a step: where it continues, its aggregate
\* instance, and (once it has returned) its output and error.
Continue(at, u) == [pc |-> at, du |-> u, out |-> NoUser, err |-> Nil]
Return(u, out, err) == [pc |-> "done", du |-> u, out |-> out, err |-> err]

\* CreateUserCheck that carries on whatever FindByEmail returned.
CreateUserCheck_Swallow(in, r, now, uuid) ==
  IF r.user # NoUser
    THEN Return(NoUser, NoUser, ErrEmailExists)
  ELSE LET n == New(in.name, in.email, now, uuid)
       IN IF n.err # Nil THEN Return(NoUser, NoUser, n.err)
          ELSE Continue("create_save", n.user)

\* CreateUserUseCase.Execute, from the result r of FindByEmail to the
\* construction of the aggregate.
CreateUserCheck(in, r, now, uuid) ==
  IF r.err # Nil /\ ~Is(r.err, ErrUserNotFound)
    THEN Return(NoUser, NoUser, Wrap("failed to check email existence", r.err))
  ELSE IF r.user # NoUser
    THEN Return(NoUser, NoUser, ErrEmailExists)
  ELSE LET n == New(in.name, in.email, now, uuid)
       IN IF n.err # Nil THEN Return(NoUser, NoUser, n.err)
          ELSE Continue("create_save", n.user)

\* CreateUserPersist that formats the error of Save with %v.
CreateUserPersist_LoseKind(u, err) ==
  IF err # Nil
    THEN Return(u, NoUser, [chain |-> <<"failed to save user">>, cause |-> err.chain[1]])
  ELSE Return(u, MapFromDomain(u), Nil)

\* CreateUserUseCase.Execute, from the result of Save on.
CreateUserPersist(u, err) ==
  IF err # Nil THEN Return(u, NoUser, Wrap("failed to save user", err))
  ELSE Return(u, MapFromDomain(u), Nil)

\* GetUserUseCase.Execute
GetUserExecute(r) ==
  IF r.err # Nil
    THEN IF Is(r.err, ErrUserNotFound)
           THEN Return(NoUser, NoUser, ErrUserNotFound)
           ELSE Return(NoUser, NoUser, Wrap("failed to find user", r.err))
  ELSE Return(r.user, MapFromDomain(r.user), Nil)

\* DeleteUserVerify that only returns on an error other than NotFound.
DeleteUserVerify_NoReturn(r) ==
  IF r.err # Nil /\ ~Is(r.err, ErrUserNotFound)
    THEN Return(NoUser, NoUser, Wrap("failed to find user", r.err))
  ELSE Continue("delete_delete", r.user)

\* DeleteUserUseCase.Execute, from the result r of FindByID.
DeleteUserVerify(r) ==
  IF r.err # Nil
    THEN IF Is(r.err, ErrUserNotFound)
           THEN Return(NoUser, NoUser, ErrUserNotFound)
           ELSE Return(NoUser, NoUser, Wrap("failed to find user", r.err))
  ELSE Continue("delete_delete", r.user)

\* DeleteUserUseCase.Execute, from the result of Delete on.
DeleteUserPersist(u, err) ==
  IF err # Nil THEN Return(u, NoUser, Wrap("failed to delete user", err))
  ELSE Return(u, NoUser, Nil)

\* UpdateUserName that takes an empty name for an absent one.
UpdateUserName_SkipEmpty(in, u, now) ==
  IF in.name # None /\ in.name[1] # <<>>
    THEN LET n == UpdateName(u, in.name[1], now)
         IN IF n.err # Nil THEN Return(u, NoUser, n.err)
            ELSE Continue("update_update", n.user)
  ELSE Continue("update_update", u)

\* UpdateUserUseCase.Execute: "Update name if provided".
UpdateUserName(in, u, now) ==
  IF in.name # None
    THEN LET n == UpdateName(u, in.name[1], now)
         IN IF n.err # Nil THEN Return(u, NoUser, n.err)
            ELSE Continue("update_update", n.user)
  ELSE Continue("update_update", u)

\* The guard of "Check email uniqueness if changing email".
ChangingEmail(in, u) == in.email # None /\ in.email[1] # u.email

\* UpdateUserRetrieve that returns the loaded user at once when the request
\* changes nothing.
UpdateUserRetrieve_SkipNoop(in, r, now) ==
  IF r.err # Nil
    THEN IF Is(r.err, ErrUserNotFound)
           THEN Return(NoUser, NoUser, ErrUserNotFound)
           ELSE Return(NoUser, NoUser, Wrap("failed to find user", r.err))
  ELSE IF ChangingEmail(in, r.user) THEN Continue("update_findemail", r.user)
  ELSE IF in.name = None THEN Return(r.user, MapFromDomain(r.user), Nil)
  ELSE UpdateUserName(in, r.user, now)

\* UpdateUserUseCase.Execute, from the result r of FindByID up to the next
\* repository call.
UpdateUserRetrieve(in, r, now) ==
  IF r.err # Nil
    THEN IF Is(r.err, ErrUserNotFound)
           THEN Return(NoUser, NoUser, ErrUserNotFound)
           ELSE Return(NoUser, NoUser, Wrap("failed to find user", r.err))
  ELSE IF ChangingEmail(in, r.user) THEN Continue("update_findemail", r.user)
  ELSE UpdateUserName(in, r.user, now)

\* UpdateUserCheckEmail that does not look at the row FindByEmail returned.
UpdateUserCheckEmail_NoCheck(in, u, r, now) ==
  IF r.err # Nil /\ ~Is(r.err, ErrUserNotFound)
    THEN Return(u, NoUser, Wrap("failed to check email existence", r.err))
  ELSE LET e == UpdateEmail(u, in.email[1], now)
       IN IF e.err # Nil THEN Return(u, NoUser, e.err)
          ELSE UpdateUserName(in, e.user, now)

\* UpdateUserUseCase.Execute, from the result r of FindByEmail up to Update.
UpdateUserCheckEmail(in, u, r, now) ==
  IF r.err # Nil /\ ~Is(r.err, ErrUserNotFound)
    THEN Return(u, NoUser, Wrap("failed to check email existence", r.err))
  ELSE IF r.user # NoUser
    THEN Return(u, NoUser, ErrEmailExists)
  ELSE LET e == UpdateEmail(u, in.email[1], now)
       IN IF e.err # Nil THEN Return(u, NoUser, e.err)
          ELSE UpdateUserName(in, e.user, now)

\* UpdateUserUseCase.Execute, from the result of Update on.
UpdateUserPersist(u, err) ==
  IF err # Nil THEN Return(u, NoUser, Wrap("failed to update user", err))
  ELSE Return(u, MapFromDomain(u), Nil)

\* ListUsersUseCase.Execute: calls FindAll(limit, offset) and returns the
\* resulting ordered sequence.
ListUsersExecute(r) ==
  IF r.err # Nil THEN Return(NoUser, <<>>, r.err)
  ELSE Return(NoUser, [i \in DOMAIN r.users |-> MapFromDomain(r.users[i])], Nil)

\* ---------------------------------------------------------------- state
VARIABLES
  store,     \* the rows of the users table
  store0,    \* the rows the table held when the service started
  clock,     \* what time.Now().UTC() returns
  nextId,    \* the next value uuid.New() returns
  pc,        \* per invocation: the repository call it is about to make
  inp,       \* per invocation: use case and input value
  loaded,    \* per invocation: the row FindByID returned to it
  du,        \* per invocation: its aggregate instance (domainUser)
  res,       \* per invocation: the (output, error) it returned
  calls,     \* per invocation: repository calls made so far, with results
  faults,    \* infrastructure faults that have hit a repository call
  wrote,     \* the invocations whose statement changed the table
  known,     \* the ids of the rows the table holds or has held
  mpc,       \* where main is
  gpc,       \* where the goroutine main starts for the shutdown is
  quit,      \* the signals buffered in the channel quit
  done,      \* whether the channel done has been closed
  srv        \* the http.Server: not yet listening, listening, or shut down

mainVars == <<mpc, gpc, quit, done, srv>>

vars == <<store, store0, clock, nextId, pc, inp, loaded, du, res, calls, faults, wrote, known,
          mpc, gpc, quit, done, srv>>

\* main is in ListenAndServe, the server accepts requests, and the goroutine
\* waits for a signal.
Serving ==
  /\ mpc = "serve"
  /\ gpc = "quit"
  /\ quit = <<>>
  /\ done = FALSE
  /\ srv = "open"

\* The process has not ended: main has not returned and nothing has called
\* os.Exit.
Running == mpc \notin {"returned", "exited"}

NoInput == [op |-> "none", id |-> 0, name |-> None, email |-> None]
NoResult == [out |-> NoUser, err |-> Nil]

\* The instants (in nanoseconds) at which the clock is read: they fall in
\* successive microseconds, none on a microsecond boundary but the first.
Instant(i) == i * (Microsecond + 1)
Instants == {Instant(i) : i \in 0..MaxClock}

\* time.Now().UTC(): the wall clock never runs backwards; a reading leaves
\* the clock at the value read.
Now == {t \in Instants : t >= clock}

\* How a round trip to the database can end.
Outcomes == IF faults < MaxFaults THEN {"ok"} \cup Faults ELSE {"ok"}

\* Ids a request can name: those of the rows the table holds or has held.
ReqIds == known

Init ==
  /\ store \in InitStores
  /\ store0 = store
  /\ clock = 0
  /\ nextId = FirstFreshId
  /\ pc = [p \in Procs |-> "idle"]
  /\ inp = [p \in Procs |-> NoInput]
  /\ loaded = [p \in Procs |-> NoUser]
  /\ du = [p \in Procs |-> NoUser]
  /\ res = [p \in Procs |-> NoResult]
  /\ calls = [p \in Procs |-> <<>>]
  /\ faults = 0
  /\ Serving
  /\ wrote = {}
  /\ known = {r.id : r \in store}

\* The invocations the model holds a record of: those in flight and those
\* that have returned and are still remembered.  The model follows at most
\* two at a time; a further one arrives once an older record has been
\* dropped (Forget).
Live == {q \in Procs : pc[q] \notin {"idle", "gone"}}

\* The invocation p moves on as the use case decided in nx, having made the
\* repository call fn that returned err and left the table as st.
Step(p, nx, fn, err, st) ==
  /\ pc' = [pc EXCEPT ![p] = nx.pc]
  /\ du' = [du EXCEPT ![p] = nx.du]
  /\ res' = [res EXCEPT ![p] = [out |-> nx.out, err |-> nx.err]]
  /\ calls' = [calls EXCEPT ![p] = Append(@, [fn |-> fn, err |-> err])]
  /\ store' = st
  /\ faults' = IF Is(err, ErrRepositoryInternal("")) THEN faults + 1 ELSE faults
  /\ wrote' = IF st # store THEN wrote \cup {p} ELSE wrote
  /\ known' = known \cup {r.id : r \in st}
  /\ Running
  /\ UNCHANGED <<store0, mpc, gpc, quit, done, srv>>

\* The first step of an invocation: it receives its input.  Invocations are
\* numbered in the order of their first repository call.
Begin(p, in) ==
  /\ pc[p] = "idle"
  /\ \A q \in Procs : q < p => pc[q] # "idle"
  /\ Cardinality(Live) <= 1
  /\ srv = "open"
  /\ inp' = [inp EXCEPT ![p] = in]

\* ---------------------------------------------------------------- actions
\* CreateUserUseCase.Execute up to Save, on a request whose email is one of
\* emails.
CreateFindByEmailOf(p, emails) ==
  \E name \in Names, email \in emails, f \in Outcomes, now \in Now :
    LET in == [op |-> "create", id |-> 0, name |-> Some(name), email |-> Some(email)]
        r == FindByEmail(store, email, f)
        nx == CreateUserCheck([name |-> name, email |-> email], r, now, nextId)
    IN /\ Begin(p, in)
       /\ Step(p, nx, "FindByEmail", r.err, store)
       /\ nextId' = IF nx.pc = "create_save" THEN nextId + 1 ELSE nextId
       /\ clock' = IF nx.pc = "create_save" THEN now ELSE clock
       /\ UNCHANGED loaded

CreateFindByEmail(p) == CreateFindByEmailOf(p, Emails)

CreateSave(p) ==
  /\ pc[p] = "create_save"
  /\ \E f \in Outcomes :
       LET r == Save(store, du[p], f)
       IN Step(p, CreateUserPersist(du[p], r.err), "Save", r.err, r.store)
  /\ UNCHANGED <<clock, nextId, inp, loaded>>

GetFindByID(p) ==
  \E id \in ReqIds, f \in Outcomes :
    LET in == [op |-> "get", id |-> id, name |-> None, email |-> None]
        r == FindByID(store, id, f)
    IN /\ Begin(p, in)
       /\ Step(p, GetUserExecute(r), "FindByID", r.err, store)
       /\ loaded' = [loaded EXCEPT ![p] = r.user]
       /\ UNCHANGED <<clock, nextId>>

DeleteFindByID(p) ==
  \E id \in ReqIds, f \in Outcomes :
    LET in == [op |-> "delete", id |-> id, name |-> None, email |-> None]
        r == FindByID(store, id, f)
    IN /\ Begin(p, in)
       /\ Step(p, DeleteUserVerify(r), "FindByID", r.err, store)
       /\ loaded' = [loaded EXCEPT ![p] = r.user]
       /\ UNCHANGED <<clock, nextId>>

DeleteDelete(p) ==
  /\ pc[p] = "delete_delete"
  /\ \E f \in Outcomes :
       LET r == Delete(store, inp[p].id, f)
       IN Step(p, DeleteUserPersist(du[p], r.err), "Delete", r.err, r.store)
  /\ UNCHANGED <<clock, nextId, inp, loaded>>

\* UpdateUserUseCase.Execute up to its second repository call, on a request
\* whose email, if it has one, is one of emails.
UpdateFindByIDOf(p, emails) ==
  \E id \in ReqIds, name \in {None} \cup {Some(n) : n \in Names},
     email \in {None} \cup {Some(e) : e \in emails}, f \in Outcomes, now \in Now :
    LET in == [op |-> "update", id |-> id, name |-> name, email |-> email]
        r == FindByID(store, id, f)
        nx == UpdateUserRetrieve(in, r, now)
    IN /\ Begin(p, in)
       /\ Step(p, nx, "FindByID", r.err, store)
       /\ loaded' = [loaded EXCEPT ![p] = r.user]
       /\ clock' = IF nx.du # r.user THEN now ELSE clock
       /\ UNCHANGED nextId

UpdateFindByID(p) == UpdateFindByIDOf(p, Emails)

UpdateFindByEmail(p) ==
  /\ pc[p] = "update_findemail"
  /\ \E f \in Outcomes, now \in Now :
       LET r == FindByEmail(store, inp[p].email[1], f)
           nx == UpdateUserCheckEmail(inp[p], du[p], r, now)
       IN /\ Step(p, nx, "FindByEmail", r.err, store)
          /\ clock' = IF nx.du # du[p] THEN now ELSE clock
  /\ UNCHANGED <<nextId, inp, loaded>>

UpdateUpdate(p) ==
  /\ pc[p] = "update_update"
  /\ \E f \in Outcomes :
       LET r == Update(store, du[p], f)
       IN Step(p, UpdateUserPersist(du[p], r.err), "Update", r.err, r.store)
  /\ UNCHANGED <<clock, nextId, inp, loaded>>

\* The record of a returned invocation is dropped, oldest first: its
\* goroutine has ended and nothing of it remains but its effect on the table.
Forget(p) ==
  /\ pc[p] = "done"
  /\ \A q \in Procs : q < p => pc[q] = "gone"
  /\ pc' = [pc EXCEPT ![p] = "gone"]
  /\ inp' = [inp EXCEPT ![p] = NoInput]
  /\ loaded' = [loaded EXCEPT ![p] = NoUser]
  /\ du' = [du EXCEPT ![p] = NoUser]
  /\ res' = [res EXCEPT ![p] = NoResult]
  /\ calls' = [calls EXCEPT ![p] = <<>>]
  /\ UNCHANGED <<store, store0, clock, nextId, faults, wrote, known>>
  /\ UNCHANGED mainVars

Next ==
  \/ \E p \in Procs : CreateFindByEmail(p)
  \/ \E p \in Procs : CreateSave(p)
  \/ \E p \in Procs : GetFindByID(p)
  \/ \E p \in Procs : DeleteFindByID(p)
  \/ \E p \in Procs : DeleteDelete(p)
  \/ \E p \in Procs : UpdateFindByID(p)
  \/ \E p \in Procs : UpdateFindByEmail(p)
  \/ \E p \in Procs : UpdateUpdate(p)
  \/ \E p \in Procs : Forget(p)

Spec == Init /\ [][Next]_vars

TypeOK ==
  /\ clock \in Instants
  /\ \A p \in Procs : pc[p] \in {"idle", "create_save", "delete_delete",
                                 "update_findemail", "update_update", "done", "gone"}
  /\ mpc \in {"boot", "listen", "serve", "wait", "stopped", "returned", "exited"}
  /\ gpc \in {"none", "quit", "shutdown", "close", "end"}
  /\ done \in BOOLEAN
  /\ srv \in {"new", "open", "closed"}

\* ---------------------------------------------------------------- helpers
Done(p) == pc[p] = "done"
Succeeded(p) == Done(p) /\ res[p].err = Nil

\* The call log cs holds a call that failed for an infrastructure fault.
FaultIn(cs) == \E i \in 1..Len(cs) : Is(cs[i].err, ErrRepositoryInternal(""))
Faulted(p) == FaultIn(calls[p])

\* The invocation p made the repository call fn.
Called(p, fn) == \E i \in 1..Len(calls[p]) : calls[p][i].fn = fn

\* The error the repository call fn returned to p.
CallErr(p, fn) ==
  LET i == CHOOSE i \in 1..Len(calls[p]) : calls[p][i].fn = fn IN calls[p][i].err

\* The step in which p makes its first repository call.
Begins(p) == pc[p] = "idle" /\ pc'[p] # "idle"

NameOK(name) == TrimSpace(name) # <<>>
EmailOK(email) == validateEmail(email) = Nil

\* ---------------------------------------------------------------- C1
\* C1: in every reachable state no two rows of the users table with
\* different ids have the same email, whatever the interleaving of the
\* create and update invocations.
C1_EmailUnique ==
  \A r1 \in store, r2 \in store : r1.id # r2.id => r1.email # r2.email

\* A race was lost at the store: an invocation passed its pre-check and was
\* then refused by Save or Update, and the table holds two rows.
C1_Witness ==
  /\ Cardinality(store) >= 2
  /\ \E p \in Procs :
       /\ Done(p)
       /\ \/ Called(p, "Save") /\ CallErr(p, "Save") = ErrEmailExists
          \/ Called(p, "Update") /\ CallErr(p, "Update") = ErrEmailExists

\* ---------------------------------------------------------------- C2
\* Two fault-free CreateUser invocations with the same valid email (and
\* names that pass validation), which alone have changed a table that did
\* not hold that email.
CreatePair(p, q) ==
  /\ p # q /\ Done(p) /\ Done(q)
  /\ inp[p].op = "create" /\ inp[q].op = "create"
  /\ inp[p].email = inp[q].email
  /\ EmailOK(inp[p].email[1])
  /\ NameOK(inp[p].name[1]) /\ NameOK(inp[q].name[1])
  /\ ~Faulted(p) /\ ~Faulted(q)
  /\ wrote \subseteq {p, q}
  /\ ~\E r \in store0 : r.email = ToLower(TrimSpace(inp[p].email[1]))

\* C2: of two CreateUser invocations with the same valid email run against
\* a table that does not hold it, exactly one succeeds and the other returns
\* an error of kind EmailExists, be it refused by the pre-check or by Save.
C2_CreateRace ==
  \A p \in Procs, q \in Procs :
    CreatePair(p, q) =>
      \/ Succeeded(p) /\ Is(res[q].err, ErrEmailExists)
      \/ Succeeded(q) /\ Is(res[p].err, ErrEmailExists)

\* Both passed the pre-check and the loser was refused by Save.
C2_Witness ==
  \E p \in Procs, q \in Procs :
    /\ CreatePair(p, q)
    /\ Succeeded(p)
    /\ Called(q, "Save") /\ CallErr(q, "Save") = ErrEmailExists
    /\ Is(res[q].err, ErrEmailExists)

\* ---------------------------------------------------------------- C3
\* C3: a CreateUser (with a name that passes validation) whose email
\* equals, ignoring letter case, the email of a row in the table returns
\* EmailExists from the pre-check, without a Save call.
C3_CreateExistingIgnoringCase ==
  [][\A p \in Procs :
       ( /\ Begins(p)
         /\ inp'[p].op = "create"
         /\ NameOK(inp'[p].name[1])
         /\ ~FaultIn(calls'[p])
         /\ \E r \in store : ToLower(r.email) = ToLower(inp'[p].email[1]) )
       => /\ pc'[p] = "done"
          /\ Is(res'[p].err, ErrEmailExists)]_vars

\* ---------------------------------------------------------------- C4
\* C4: GetUser, UpdateUser and DeleteUser on an id that is not in the table
\* return NotFound; in particular every invocation that starts after a
\* DeleteUser(id) has returned success returns NotFound for that id.
C4_DeletionFinal ==
  [][\A p \in Procs :
       ( /\ Begins(p)
         /\ inp'[p].op \in {"get", "update", "delete"}
         /\ ~FaultIn(calls'[p])
         /\ \/ ~\E r \in store : r.id = inp'[p].id
            \/ \E q \in Procs : /\ Succeeded(q)
                                /\ inp[q].op = "delete"
                                /\ inp[q].id = inp'[p].id )
       => /\ pc'[p] = "done"
          /\ res'[p].err = ErrUserNotFound]_vars

\* Two DeleteUser calls in succession on one id: success, then NotFound from
\* the second one's FindByID.
C4_Witness ==
  \E p \in Procs, q \in Procs :
    /\ Succeeded(q) /\ inp[q].op = "delete"
    /\ Done(p) /\ inp[p].op = "delete" /\ inp[p].id = inp[q].id
    /\ calls[p] = <<[fn |-> "FindByID", err |-> ErrUserNotFound]>>
    /\ res[p].err = ErrUserNotFound

\* ---------------------------------------------------------------- C5
\* Two fault-free DeleteUser invocations on one id that the table held,
\* which alone have changed the table.
DeletePair(p, q) ==
  /\ p # q /\ Done(p) /\ Done(q)
  /\ inp[p].op = "delete" /\ inp[q].op = "delete"
  /\ inp[p].id = inp[q].id
  /\ \E r \in store0 : r.id = inp[p].id
  /\ ~Faulted(p) /\ ~Faulted(q)
  /\ wrote \subseteq {p, q}

\* C5: of two concurrent DeleteUser invocations on an existing id exactly
\* one succeeds and the other returns an error of kind NotFound, be it from
\* its FindByID or from its Delete.
C5_DeleteRace ==
  \A p \in Procs, q \in Procs :
    DeletePair(p, q) =>
      \/ Succeeded(p) /\ Is(res[q].err, ErrUserNotFound)
      \/ Succeeded(q) /\ Is(res[p].err, ErrUserNotFound)

\* Both found the row and the loser was refused by Delete.
C5_Witness ==
  \E p \in Procs, q \in Procs :
    /\ DeletePair(p, q)
    /\ Succeeded(p)
    /\ Called(q, "Delete") /\ CallErr(q, "Delete") = ErrUserNotFound
    /\ Is(res[q].err, ErrUserNotFound)

\* ---------------------------------------------------------------- C6
\* C6: an UpdateUser that supplies only a name, with no other operation on
\* the row between its FindByID and its Update, leaves the row's email (and
\* id and createdAt) as it was, sets the trimmed name and leaves every other
\* row alone.
C6_NameOnlyUpdate ==
  [][\A p \in Procs :
       ( /\ pc[p] = "update_update" /\ pc'[p] = "done"
         /\ inp[p].name # None /\ inp[p].email = None
         /\ res'[p].err = Nil
         /\ loaded[p] \in store )
       => \E r \in store' :
            /\ r.id = loaded[p].id
            /\ r.email = loaded[p].email
            /\ r.createdAt = loaded[p].createdAt
            /\ r.name = TrimSpace(inp[p].name[1])
            /\ store' \ {r} = store \ {loaded[p]}]_vars

\* A name-only update has gone through and renamed the row.
C6_Witness ==
  \E p \in Procs :
    /\ Succeeded(p) /\ inp[p].op = "update"
    /\ inp[p].name # None /\ inp[p].email = None
    /\ \E r \in store : /\ r.id = inp[p].id
                        /\ r.name = TrimSpace(inp[p].name[1])
                        /\ r.name # loaded[p].name
                        /\ r.email = loaded[p].email

\* ---------------------------------------------------------------- C7
\* The email p supplies equals, ignoring letter case, the email of the row
\* it loaded.
SameEmailIgnoringCase(in, row) ==
  in.op = "update" /\ in.email # None /\ row # NoUser
    /\ ToLower(in.email[1]) = ToLower(row.email)

\* C7: an UpdateUser whose email equals, ignoring letter case, the current
\* email of its row never returns EmailExists while no other row holds that
\* email: neither the pre-check nor Update takes the row for a collision
\* with itself.
C7_NoSelfCollision ==
  [][\A p \in Procs :
       ( /\ pc[p] # pc'[p]
         /\ SameEmailIgnoringCase(inp'[p], loaded'[p])
         /\ ~\E r \in store : r.id # inp'[p].id
                              /\ r.email = ToLower(inp'[p].email[1]) )
       => ~Is(res'[p].err, ErrEmailExists)]_vars

\* The email differed in case only: the pre-check ran, found nothing, and
\* the Update went through.
C7_Witness ==
  \E p \in Procs :
    /\ Succeeded(p)
    /\ SameEmailIgnoringCase(inp[p], loaded[p])
    /\ inp[p].email[1] # loaded[p].email
    /\ Called(p, "FindByEmail") /\ Called(p, "Update")

\* ---------------------------------------------------------------- C8
\* C8: in an UpdateUser that found its row, a field supplied as the empty
\* string is validated like any supplied value: email = "" fails with
\* InvalidEmail, name = "" fails (with EmptyName, unless the supplied email
\* was refused first), and neither reaches Update; an absent field is not
\* validated.
C8_EmptyIsSupplied ==
  \A p \in Procs :
    (Done(p) /\ inp[p].op = "update" /\ loaded[p] # NoUser /\ ~Faulted(p)) =>
      /\ inp[p].email = Some(<<>>) =>
           res[p].err = ErrInvalidEmail /\ ~Called(p, "Update")
      /\ inp[p].name = Some(<<>>) =>
           /\ ~Called(p, "Update")
           /\ res[p].err \in {ErrEmptyName, ErrEmailExists, ErrInvalidEmail}
           /\ res[p].err # ErrEmptyName => inp[p].email # None
      /\ inp[p].name = None => res[p].err # ErrEmptyName
      /\ inp[p].email = None =>
           res[p].err # ErrInvalidEmail /\ ~Called(p, "FindByEmail")

\* name = "" alone: EmptyName after the one FindByID call.
C8_Witness ==
  \E p \in Procs :
    /\ Done(p) /\ inp[p].op = "update"
    /\ inp[p].name = Some(<<>>) /\ inp[p].email = None
    /\ loaded[p] # NoUser
    /\ res[p].err = ErrEmptyName
    /\ Len(calls[p]) = 1

\* ---------------------------------------------------------------- C9
\* The error e carries the error c: c's chain ends e's chain and its cause
\* is e's cause.
Carries(e, c) ==
  /\ e.cause = c.cause
  /\ Len(e.chain) >= Len(c.chain)
  /\ SubSeq(e.chain, Len(e.chain) - Len(c.chain) + 1, Len(e.chain)) = c.chain

\* C9: whenever a repository call of an invocation fails (other than with
\* NotFound at a uniqueness pre-check), the invocation makes no further call
\* and returns an error that carries that failure.
C9_NoSwallowedFailure ==
  \A p \in Procs : \A i \in 1..Len(calls[p]) :
    LET c == calls[p][i]
    IN (c.err # Nil /\ ~(c.fn = "FindByEmail" /\ c.err = ErrUserNotFound)) =>
         /\ i = Len(calls[p])
         /\ Done(p)
         /\ Carries(res[p].err, c.err)

\* A cancelled context hit the second call of an invocation, which returned
\* the internal error with that cause.
C9_Witness ==
  \E p \in Procs :
    /\ Done(p) /\ Len(calls[p]) = 2
    /\ calls[p][2].err = ErrRepositoryInternal("context canceled")
    /\ Is(res[p].err, ErrRepositoryInternal(""))
    /\ res[p].err.cause = "context canceled"

\* ---------------------------------------------------------------- C10
\* C10: an invocation calls each repository operation at most once; Save
\* only after FindByEmail returned NotFound and the aggregate was
\* constructed; Update and Delete only after FindByID succeeded.
C10_CallOrder ==
  \A p \in Procs :
    /\ \A i \in 1..Len(calls[p]), j \in 1..Len(calls[p]) :
         calls[p][i].fn = calls[p][j].fn => i = j
    /\ \A j \in 1..Len(calls[p]) :
         /\ calls[p][j].fn = "Save" =>
              /\ j = 2
              /\ calls[p][1] = [fn |-> "FindByEmail", err |-> ErrUserNotFound]
              /\ du[p] # NoUser
              /\ NameOK(inp[p].name[1]) /\ EmailOK(inp[p].email[1])
         /\ calls[p][j].fn \in {"Update", "Delete"} =>
              /\ j >= 2
              /\ calls[p][1] = [fn |-> "FindByID", err |-> Nil]

\* A create that reached Save and an update that reached Update.
C10_Witness ==
  \E p \in Procs, q \in Procs :
    /\ Done(p) /\ Called(p, "Save")
    /\ Done(q) /\ Called(q, "Update") /\ Called(q, "FindByEmail")

\* ---------------------------------------------------------------- C11
\* C11: an invocation that a repository call failed for an infrastructure
\* fault returns exactly what the adapter returned: the internal-error
\* marker around the cause, with nothing wrapped around it by the use case.
C11_WrappedOnce ==
  \A p \in Procs :
    (Done(p) /\ Faulted(p)) =>
      /\ res[p].err = calls[p][Len(calls[p])].err
      /\ res[p].err.chain = <<"ErrRepositoryInternal">>
      /\ res[p].err.cause \in Faults

\* ---------------------------------------------------------------- C12
\* The arguments New is called with.
NewNames ==
  { <<>>, <<" ">>, <<"m">>, <<" ", "M", " ">>, <<"n", " ", "m">> }
NewEmails ==
  { <<>>, <<" ">>, <<"n">>, <<"a", "@">>, <<"@", "b">>, <<"a", "@", "@", "b">>,
    <<"a", " ", "@", "b">>, <<"a", "@", "b", " ", "c">>,
    AtB, <<" ", "A", "@", "B", " ">>, <<"C", "@", "d">>,
    <<"<", "c", "@", "D", ">">>, <<"N", " ", "<", "c", "@", "d", ">", " ">> }

\* New called once by invocation 1, on arguments drawn from NewNames and
\* NewEmails.
InitNew ==
  /\ \E name \in NewNames, email \in NewEmails :
       inp = [p \in Procs |->
                IF p = 1 THEN [op |-> "new", id |-> 0,
                               name |-> Some(name), email |-> Some(email)]
                ELSE NoInput]
  /\ store \in InitStores
  /\ store0 = store
  /\ clock = 0
  /\ nextId = FirstFreshId
  /\ pc = [p \in Procs |-> "idle"]
  /\ loaded = [p \in Procs |-> NoUser]
  /\ du = [p \in Procs |-> NoUser]
  /\ res = [p \in Procs |-> NoResult]
  /\ calls = [p \in Procs |-> <<>>]
  /\ faults = 0
  /\ Serving
  /\ wrote = {}
  /\ known = {r.id : r \in store}

CallNew ==
  /\ pc[1] = "idle"
  /\ \E now \in Now :
       LET n == New(inp[1].name[1], inp[1].email[1], now, nextId)
       IN /\ pc' = [pc EXCEPT ![1] = "done"]
          /\ du' = [du EXCEPT ![1] = n.user]
          /\ res' = [res EXCEPT ![1] = [out |-> NoUser, err |-> n.err]]
          /\ clock' = IF n.err = Nil THEN now ELSE clock
          /\ nextId' = IF n.err = Nil THEN nextId + 1 ELSE nextId
  /\ UNCHANGED <<store, store0, inp, loaded, calls, faults, wrote, known>>
  /\ UNCHANGED mainVars

NextNew == CallNew

SpecNew == InitNew /\ [][NextNew]_vars

\* An address as mail.ParseAddress reads one (RFC 5322): local-part "@"
\* domain, bare or in angle brackets after an optional display name, with
\* white space around it.
ValidAddress(email) ==
  LET t == TrimSpace(email) IN IsAddrSpec(t) \/ IsNameAddr(t)

AngleCd == <<"<", "c", "@", "d", ">">>
EmailsAny == Emails \cup {AngleCd}

InitEmpty ==
  /\ store = {}
  /\ store0 = store
  /\ clock = 0
  /\ nextId = FirstFreshId
  /\ pc = [p \in Procs |-> "idle"]
  /\ inp = [p \in Procs |-> NoInput]
  /\ loaded = [p \in Procs |-> NoUser]
  /\ du = [p \in Procs |-> NoUser]
  /\ res = [p \in Procs |-> NoResult]
  /\ calls = [p \in Procs |-> <<>>]
  /\ faults = 0
  /\ Serving
  /\ wrote = {}
  /\ known = {}

NextEmpty ==
  \/ \E p \in Procs : CreateFindByEmailOf(p, EmailsAny)
  \/ \E p \in Procs : CreateSave(p)
  \/ \E p \in Procs : GetFindByID(p)
  \/ \E p \in Procs : DeleteFindByID(p)
  \/ \E p \in Procs : DeleteDelete(p)
  \/ \E p \in Procs : UpdateFindByIDOf(p, EmailsAny)
  \/ \E p \in Procs : UpdateFindByEmail(p)
  \/ \E p \in Procs : UpdateUpdate(p)
  \/ \E p \in Procs : Forget(p)

SpecEmpty == InitEmpty /\ [][NextEmpty]_vars

\* C13: starting from an empty table, every row has a name that is not
\* empty and has no white space around it, and an email that is a bare
\* address (local-part "@" domain), with no white space around it and in
\* lower case.
C13_RowsWellFormed ==
  \A r \in store :
    /\ r.name # <<>> /\ TrimSpace(r.name) = r.name
    /\ IsAddrSpec(r.email)
    /\ TrimSpace(r.email) = r.email
    /\ ToLower(r.email) = r.email

C15_RoundTrip ==
  [][\A p \in Procs :
       (pc[p] = "create_save" /\ pc'[p] = "done" /\ res'[p].err = Nil) =>
         LET r == FindByID(store', du[p].id, "ok")
         IN /\ r.err = Nil
            /\ r.user.id = du[p].id
            /\ r.user.name = du[p].name
            /\ r.user.email = du[p].email
            /\ r.user.createdAt = du[p].createdAt
            /\ r.user.updatedAt = du[p].updatedAt]_vars

\* ---------------------------------------------------------------- C16
\* Rows a table may hold when it is listed (two of them created in the same
\* microsecond), and the pagination parameters of the request.
ListRows ==
  { U1,
    [id |-> 2, name |-> <<"m">>, email |-> CtD,
     createdAt |-> Microsecond, updatedAt |-> Microsecond],
    [id |-> 3, name |-> <<"m">>, email |-> <<"b", "@", "a">>,
     createdAt |-> Microsecond, updatedAt |-> 2 * Microsecond],
    [id |-> 4, name |-> <<"n">>, email |-> <<"d", "@", "c">>,
     createdAt |-> 2 * Microsecond, updatedAt |-> 2 * Microsecond] }
Limits == {1, 2, 10}
Offsets == {0, 1, 2}

\* ListUsers called once by invocation 1.
InitList ==
  /\ store \in SUBSET ListRows
  /\ store0 = store
  /\ \E limit \in Limits, offset \in Offsets :
       inp = [p \in Procs |->
                IF p = 1 THEN [op |-> "list", id |-> 0, name |-> None, email |-> None,
                               limit |-> limit, offset |-> offset]
                ELSE NoInput]
  /\ clock = 0
  /\ nextId = Cardinality(ListRows) + 1
  /\ pc = [p \in Procs |-> "idle"]
  /\ loaded = [p \in Procs |-> NoUser]
  /\ du = [p \in Procs |-> NoUser]
  /\ res = [p \in Procs |-> NoResult]
  /\ calls = [p \in Procs |-> <<>>]
  /\ faults = 0
  /\ Serving
  /\ wrote = {}
  /\ known = {r.id : r \in store}

ListFindAll ==
  /\ pc[1] = "idle"
  /\ \E f \in Outcomes, ord \in Orderings(store) :
       LET r == FindAll(store, inp[1].limit, inp[1].offset, f, ord)
       IN Step(1, ListUsersExecute(r), "FindAll", r.err, store)
  /\ UNCHANGED <<clock, nextId, inp, loaded>>

NextList == ListFindAll

SpecList == InitList /\ [][NextList]_vars

\* The rows of the table created after the row r / not before it.
Newer(r) == {x \in store : x.createdAt > r.createdAt}
NotOlder(r) == {x \in store : x.createdAt >= r.createdAt}

\* C16: what ListUsers(limit, offset) returns is the rows at positions
\* [offset, offset+limit) of the table ordered by creation time, newest
\* first: as many rows as the table has at those positions, each a row of
\* the table and none twice, none older before a newer one, and the i-th
\* one preceded in creation order by offset + i - 1 rows; from an empty
\* table it is the empty sequence.
C16_FindAll ==
  (pc[1] = "done" /\ inp[1].op = "list" /\ ~Faulted(1)) =>
    LET out == res[1].out
        n == Cardinality(store)
        limit == inp[1].limit
        offset == inp[1].offset
    IN /\ res[1].err = Nil
       /\ Len(out) = (IF n - offset <= 0 THEN 0 ELSE Min(limit, n - offset))
       /\ \A i \in DOMAIN out :
            /\ out[i] \in store
            /\ Cardinality(Newer(out[i])) <= offset + i - 1
            /\ Cardinality(NotOlder(out[i])) >= offset + i
       /\ \A i \in DOMAIN out, j \in DOMAIN out :
            i < j => out[i] # out[j] /\ out[i].createdAt >= out[j].createdAt
       /\ store = {} => out = <<>>

\* A page from the middle of a table of four rows: the newest is skipped,
\* the oldest is cut off.
C16_Witness ==
  /\ pc[1] = "done" /\ inp[1].op = "list"
  /\ store = ListRows
  /\ inp[1].limit = 2 /\ inp[1].offset = 1
  /\ Len(res[1].out) = 2
  /\ res[1].out[1].createdAt = Microsecond
  /\ res[1].out[2].createdAt = Microsecond

\* ---------------------------------------------------------------- C17
\* C17: an invocation that has returned an error (a validation error,
\* NotFound, EmailExists or an infrastructure error) is none of those whose
\* statements changed the table: no row was added, removed or altered by it.
C17_ErrorLeavesStore ==
  \A p \in Procs : (Done(p) /\ res[p].err # Nil) => p \notin wrote

\* An UpdateUser whose email passed the pre-check and UpdateEmail and whose
\* name was then refused: the table is as it was.
C17_Witness ==
  \E p \in Procs :
    /\ Done(p) /\ inp[p].op = "update"
    /\ inp[p].email = Some(CtD) /\ inp[p].name = Some(<<>>)
    /\ calls[p] = << [fn |-> "FindByID", err |-> Nil],
                     [fn |-> "FindByEmail", err |-> ErrUserNotFound] >>
    /\ res[p].err = ErrEmptyName
    /\ wrote = {} /\ store = store0

\* ---------------------------------------------------------------- C18
\* C18: no step puts back a row whose id the table has held and holds no
\* more; and when the row of an UpdateUser has been deleted since its
\* FindByID, its Update call changes nothing and the invocation returns an
\* error of kind NotFound.
C18_UpdateAfterDelete ==
  [][/\ \A id \in known :
          (~\E r \in store : r.id = id) => (~\E r \in store' : r.id = id)
     /\ \A p \in Procs :
          ( /\ pc[p] = "update_update" /\ pc'[p] = "done"
            /\ ~\E r \in store : r.id = du[p].id
            /\ ~FaultIn(calls'[p]) )
          => /\ store' = store
             /\ calls'[p][Len(calls'[p])] = [fn |-> "Update", err |-> ErrUserNotFound]
             /\ Is(res'[p].err, ErrUserNotFound)
             /\ res'[p].out = NoUser]_vars

\* The update found its row, a DeleteUser on the same id then succeeded,
\* and the update's Update call affected no row.
C18_Witness ==
  \E p \in Procs, q \in Procs :
    /\ Done(p) /\ inp[p].op = "update" /\ loaded[p] # NoUser
    /\ Succeeded(q) /\ inp[q].op = "delete" /\ inp[q].id = inp[p].id
    /\ Called(p, "Update") /\ CallErr(p, "Update") = ErrUserNotFound
    /\ Is(res[p].err, ErrUserNotFound)
    /\ ~\E r \in store : r.id = inp[p].id

\* ---------------------------------------------------------------- C19
\* An UpdateUser supplying only a name and one supplying only an email, on
\* the same id, both returned with success, and no other invocation has
\* changed the table.
UpdatePair(p, q) ==
  /\ p # q /\ Succeeded(p) /\ Succeeded(q)
  /\ inp[p].op = "update" /\ inp[q].op = "update"
  /\ inp[p].id = inp[q].id
  /\ inp[p].name # None /\ inp[p].email = None
  /\ inp[q].name = None /\ inp[q].email # None
  /\ wrote \subseteq {p, q}

\* C19: after an UpdateUser supplying only a name and an UpdateUser
\* supplying only an email have both succeeded on one id, the row has the
\* new name and the new email.
C19_NoLostUpdate ==
  \A p \in Procs, q \in Procs :
    UpdatePair(p, q) =>
      \E r \in store :
        /\ r.id = inp[p].id
        /\ r.name = TrimSpace(inp[p].name[1])
        /\ r.email = ToLower(TrimSpace(inp[q].email[1]))

\* ---------------------------------------------------------------- C20
\* C20: when the pre-check of an UpdateUser runs for an email that another
\* row holds, the invocation returns EmailExists at once: its aggregate is
\* as FindByID loaded it (UpdateEmail was not called), Update is not called
\* and the table is unchanged; and an UpdateUser whose email is exactly the
\* email of the row it loaded makes no FindByEmail call.
C20_UpdatePreCheck ==
  [][\A p \in Procs :
       /\ ( /\ pc[p] = "update_findemail" /\ pc'[p] # pc[p]
            /\ \E r \in store : r.id # inp[p].id /\ r.email = inp[p].email[1]
            /\ ~FaultIn(calls'[p]) )
          => /\ pc'[p] = "done"
             /\ res'[p].err = ErrEmailExists
             /\ du'[p] = loaded[p]
             /\ store' = store
             /\ \A i \in 1..Len(calls'[p]) : calls'[p][i].fn # "Update"
       /\ ( /\ pc'[p] # pc[p]
            /\ inp'[p].op = "update"
            /\ loaded'[p] # NoUser
            /\ inp'[p].email = Some(loaded'[p].email) )
          => \A i \in 1..Len(calls'[p]) : calls'[p][i].fn # "FindByEmail"]_vars

\* The update asked for the email of another row and was refused by the
\* pre-check, after FindByID and FindByEmail only.
C20_Witness ==
  \E p \in Procs :
    /\ Done(p) /\ inp[p].op = "update"
    /\ inp[p].email = Some(CtD) /\ loaded[p].email # CtD
    /\ calls[p] = << [fn |-> "FindByID", err |-> Nil],
                     [fn |-> "FindByEmail", err |-> Nil] >>
    /\ res[p].err = ErrEmailExists
    /\ \E r \in store : r.id # inp[p].id /\ r.email = CtD

\* ---------------------------------------------------------------- C21
\* The service with an UpdateUser(id 1, name only) in flight between its
\* FindByID and its Update, after an UpdateUser(id 1, email "c@d") that
\* loaded the row at the same time has written it and returned.  (Spec
\* reaches this state with three invocations: the email update is the
\* first, and its record has been dropped.)
InitStale ==
  LET in == [op |-> "update", id |-> U1.id, name |-> Some(<<" ", "m">>), email |-> None]
      r == FindByID({U1}, U1.id, "ok")
      nx == UpdateUserRetrieve(in, r, 0)
      other == UpdateEmail(r.user, CtD, 0).user
  IN /\ store = Update({U1}, other, "ok").store
     /\ store0 = {U1}
     /\ clock = 0
     /\ nextId = FirstFreshId
     /\ pc = [p \in Procs |-> IF p = 1 THEN nx.pc ELSE "idle"]
     /\ inp = [p \in Procs |-> IF p = 1 THEN in ELSE NoInput]
     /\ loaded = [p \in Procs |-> IF p = 1 THEN r.user ELSE NoUser]
     /\ du = [p \in Procs |-> IF p = 1 THEN nx.du ELSE NoUser]
     /\ res = [p \in Procs |-> NoResult]
     /\ calls = [p \in Procs |->
                  IF p = 1 THEN << [fn |-> "FindByID", err |-> r.err] >> ELSE <<>>]
     /\ faults = 0
     /\ Serving
     /\ wrote = {}
     /\ known = {U1.id}

SpecStale == InitStale /\ [][Next]_vars

\* C21: an UpdateUser that supplies only a name never returns an error of
\* kind EmailExists.
C21_NameOnlyNoConflict ==
  \A p \in Procs :
    (Done(p) /\ inp[p].op = "update" /\ inp[p].name # None /\ inp[p].email = None)
      => ~Is(res[p].err, ErrEmailExists)

\* ---------------------------------------------------------------- C22
\* The request of p supplies no name, and no email or exactly the email of
\* the row it loaded.
NothingToChange(in, row) ==
  /\ in.op = "update" /\ row # NoUser
  /\ in.name = None
  /\ in.email = None \/ in.email = Some(row.email)

\* C22: an UpdateUser that found its row and supplies nothing to change goes
\* on from FindByID straight to Update with the aggregate as loaded; and,
\* with no other write to the row in between and no infrastructure fault,
\* that Update is its second and last call, the invocation returns success
\* with the loaded values, and the table, updatedAt of the row included, is
\* unchanged.
C22_NoopUpdate ==
  [][\A p \in Procs :
       /\ (Begins(p) /\ NothingToChange(inp'[p], loaded'[p]))
          => /\ pc'[p] = "update_update"
             /\ du'[p] = loaded'[p]
             /\ calls'[p] = << [fn |-> "FindByID", err |-> Nil] >>
       /\ ( /\ pc[p] = "update_update" /\ pc'[p] # pc[p]
            /\ NothingToChange(inp[p], loaded[p])
            /\ loaded[p] \in store
            /\ ~FaultIn(calls'[p]) )
          => /\ pc'[p] = "done"
             /\ calls'[p] = << [fn |-> "FindByID", err |-> Nil],
                               [fn |-> "Update", err |-> Nil] >>
             /\ res'[p] = [out |-> MapFromDomain(loaded[p]), err |-> Nil]
             /\ store' = store]_vars

\* An UpdateUser with the email its row already has, and no name, has
\* returned success after FindByID and Update.
C22_Witness ==
  \E p \in Procs :
    /\ Succeeded(p) /\ NothingToChange(inp[p], loaded[p])
    /\ inp[p].email = Some(loaded[p].email)
    /\ Called(p, "Update") /\ Len(calls[p]) = 2
    /\ loaded[p] \in store
    /\ res[p].out = loaded[p]

\* C22, for every interleaving: the Update call of an UpdateUser that supplies
\* nothing to change, made on a row that exists and without an infrastructure
\* fault, leaves the table as it is and returns success.
C22_NoopLeavesRow ==
  [][\A p \in Procs :
       ( /\ pc[p] = "update_update" /\ pc'[p] # pc[p]
         /\ NothingToChange(inp[p], loaded[p])
         /\ \E r \in store : r.id = inp[p].id
         /\ ~FaultIn(calls'[p]) )
       => /\ res'[p].err = Nil
          /\ store' = store]_vars

\* ---------------------------------------------------------------- C23
\* main, from its first statement to its return, with the goroutine it starts
\* for the shutdown and the requests the server handles meanwhile.

\* The signals main asks to be notified of.
Signals == {"SIGINT", "SIGTERM"}

\* The capacity of the channel quit.
QuitCap == 1

\* The invocations a handler is running: a connection of the server is busy
\* with each.
InFlight == {p \in Procs : pc[p] \notin {"idle", "done", "gone"}}

InitMain ==
  /\ store \in InitStores
  /\ store0 = store
  /\ clock = 0
  /\ nextId = FirstFreshId
  /\ pc = [p \in Procs |-> "idle"]
  /\ inp = [p \in Procs |-> NoInput]
  /\ loaded = [p \in Procs |-> NoUser]
  /\ du = [p \in Procs |-> NoUser]
  /\ res = [p \in Procs |-> NoResult]
  /\ calls = [p \in Procs |-> <<>>]
  /\ faults = 0
  /\ wrote = {}
  /\ known = {r.id : r \in store}
  /\ mpc = "boot"
  /\ gpc = "none"
  /\ quit = <<>>
  /\ done = FALSE
  /\ srv = "new"

\* A step of main or of its goroutine leaves the table and the invocations
\* alone.
MainFrame ==
  UNCHANGED <<store, store0, clock, nextId, pc, inp, loaded, du, res, calls,
              faults, wrote, known>>

\* main up to the start of the goroutine: the configuration, the logger or
\* the database fail and the process ends (panic, log.Fatal), or the server
\* value is built, the channels are made, the signals are routed to quit and
\* the goroutine is started.
MainBoot ==
  /\ mpc = "boot"
  /\ \/ mpc' = "exited" /\ gpc' = gpc
     \/ mpc' = "listen" /\ gpc' = "quit"
  /\ UNCHANGED <<quit, done, srv>>
  /\ MainFrame

\* The process receives the signal s.  Before signal.Notify it ends the
\* process; after it, the runtime sends s to quit without blocking, so that
\* s is dropped when the buffer is full.
Signal(s) ==
  /\ Running
  /\ IF gpc = "none"
       THEN mpc' = "exited" /\ quit' = quit
       ELSE /\ mpc' = mpc
            /\ quit' = IF Len(quit) < QuitCap THEN Append(quit, s) ELSE quit
  /\ UNCHANGED <<gpc, done, srv>>
  /\ MainFrame

\* main calls srv.ListenAndServe: on a server that was shut down it returns
\* ErrServerClosed at once; otherwise it listens, or fails to and main ends
\* the process with log.Fatal.
MainListen ==
  /\ mpc = "listen"
  /\ IF srv = "closed"
       THEN mpc' = "wait" /\ srv' = srv
       ELSE \/ mpc' = "serve" /\ srv' = "open"
            \/ mpc' = "exited" /\ srv' = srv
  /\ UNCHANGED <<gpc, quit, done>>
  /\ MainFrame

\* ListenAndServe returns ErrServerClosed once Shutdown has been called.
MainServe ==
  /\ mpc = "serve"
  /\ srv = "closed"
  /\ mpc' = "wait"
  /\ UNCHANGED <<gpc, quit, done, srv>>
  /\ MainFrame

\* <-done that does not wait for the channel to be closed.
MainWait_NoWait ==
  /\ mpc = "wait"
  /\ mpc' = "stopped"
  /\ UNCHANGED <<gpc, quit, done, srv>>
  /\ MainFrame

\* <-done: main goes on when the channel has been closed, and logs "server
\* stopped".
MainWait ==
  /\ mpc = "wait"
  /\ done
  /\ mpc' = "stopped"
  /\ UNCHANGED <<gpc, quit, done, srv>>
  /\ MainFrame

\* main returns, and the process ends.
MainReturn ==
  /\ mpc = "stopped"
  /\ mpc' = "returned"
  /\ UNCHANGED <<gpc, quit, done, srv>>
  /\ MainFrame

\* The goroutine receives a signal from quit and calls srv.Shutdown, which
\* closes the listener: the server takes no further request.
GoQuit ==
  /\ Running
  /\ gpc = "quit"
  /\ quit # <<>>
  /\ quit' = Tail(quit)
  /\ gpc' = "shutdown"
  /\ srv' = "closed"
  /\ UNCHANGED <<mpc, done>>
  /\ MainFrame

\* srv.Shutdown returns: nil once no handler is running, or the error of its
\* context when the 30 seconds pass with a handler still running, and then
\* the goroutine ends the process with log.Fatal.
GoShutdown ==
  /\ Running
  /\ gpc = "shutdown"
  /\ IF InFlight = {}
       THEN gpc' = "close" /\ mpc' = mpc
       ELSE gpc' = gpc /\ mpc' = "exited"
  /\ UNCHANGED <<quit, done, srv>>
  /\ MainFrame

\* close(done), and the goroutine ends.
GoClose ==
  /\ Running
  /\ gpc = "close"
  /\ done' = TRUE
  /\ gpc' = "end"
  /\ UNCHANGED <<mpc, quit, srv>>
  /\ MainFrame

MainStep == MainBoot \/ MainListen \/ MainServe \/ MainWait \/ MainReturn

GoStep == GoQuit \/ GoShutdown \/ GoClose

NextMain ==
  \/ MainBoot
  \/ MainListen
  \/ MainServe
  \/ MainWait
  \/ MainReturn
  \/ \E s \in Signals : Signal(s)
  \/ GoQuit
  \/ GoShutdown
  \/ GoClose
  \/ \E p \in Procs : GetFindByID(p)
  \/ \E p \in Procs : DeleteFindByID(p)
  \/ \E p \in Procs : DeleteDelete(p)
  \/ \E p \in Procs : Forget(p)

SpecMain == InitMain /\ [][NextMain]_vars

\* The Go scheduler runs every goroutine that can run: main and the shutdown
\* goroutine each take their next step when it stays possible.
SpecMainFair == SpecMain /\ WF_vars(MainStep) /\ WF_vars(GoStep)

\* C23: main is at "server stopped" or has returned only when srv.Shutdown
\* has returned nil and done has been closed; and once srv.Shutdown has
\* returned nil, main eventually returns.
C23_Shutdown ==
  /\ [](mpc \in {"stopped", "returned"} => done /\ gpc = "end")
  /\ (gpc = "close") ~> (mpc = "returned")

\* A signal arrived while the server was serving: ListenAndServe has
\* returned and main waits for done, while Shutdown still waits for a handler
\* that is running.
C23_Witness ==
  /\ mpc = "wait"
  /\ gpc = "shutdown"
  /\ ~done
  /\ InFlight # {}

====
